---- MODULE Spec2Model ----
(***************************************************************************)
(* A model of db-wrap (src/src/database.rs): the DataLevel value codec,    *)
(* the DbWrap registry of open stores, the level-gated put, the batch and  *)
(* delete operations, the prefix scan, and the storage engine's visible    *)
(* and durable state as the operations use it.                             *)
(***************************************************************************)
EXTENDS Integers, Sequences, FiniteSets, TLC

(***************************************************************************)
(* Bounds of the model.                                                    *)
(***************************************************************************)
MaxOps == 3          \* operations begun in one run of the concurrent model
MaxFaults == 1       \* engine calls that fail in one run
MaxCrashes == 1      \* process kills in one run
MaxLen == 3          \* longest payload fed to the codec
MaxWorkerKeys == 6   \* keys the power-outage worker attempts
MaxScanKeys == 4     \* size of the key universe of the scan model
MaxBatch == 2        \* longest batch of put_batch and delete_batch

(***************************************************************************)
(* Program constants.                                                      *)
(***************************************************************************)
DEFAULT_LEVEL == 3
SEG == 10
MaxU8 == 255
WorkerLevel == 1

(***************************************************************************)
(* DataLevel: the value codec.  A stored value is a sequence of bytes.     *)
(***************************************************************************)
\* Faulty variant of data_lv: only the first separator is tested.
data_lv_first_sep_only(d) ==
    IF Len(d) < 3 THEN DEFAULT_LEVEL
    ELSE IF d[1] = SEG THEN d[2]
    ELSE DEFAULT_LEVEL

data_lv(d) ==
    IF Len(d) < 3 THEN DEFAULT_LEVEL
    ELSE IF d[1] = SEG /\ d[3] = SEG THEN d[2]
    ELSE DEFAULT_LEVEL

\* Faulty variant of data_with_lv: the level after both separators.
data_with_lv_swapped(d, lv) == <<SEG, SEG, lv>> \o d

\* Faulty variant of data_with_lv: a payload that already begins with the
\* header pattern is stored as it is.
data_with_lv_unless_present(d, lv) ==
    IF Len(d) >= 3 /\ d[1] = SEG /\ d[3] = SEG THEN d
    ELSE <<SEG, lv, SEG>> \o d

data_with_lv(d, lv) == <<SEG, lv, SEG>> \o d

data_without_lv(d) ==
    IF Len(d) < 3 THEN d
    ELSE IF d[1] = SEG /\ d[3] = SEG THEN SubSeq(d, 4, Len(d))
    ELSE d

(***************************************************************************)
(* is_prefix: the byte-wise prefix test, by the loop of the code.          *)
(***************************************************************************)
RECURSIVE is_prefix_from(_, _, _)
is_prefix_from(prefix, key, i) ==
    IF i > Len(prefix) THEN TRUE
    ELSE IF key[i] # prefix[i] THEN FALSE
    ELSE is_prefix_from(prefix, key, i + 1)

is_prefix(prefix, key) ==
    IF Len(key) < Len(prefix) THEN FALSE
    ELSE is_prefix_from(prefix, key, 1)

(***************************************************************************)
(* The engine keeps keys in ascending byte order (the default comparator). *)
(***************************************************************************)
MinOf(a, b) == IF a < b THEN a ELSE b

\* Faulty variant of BytesLess: shorter keys first, equal lengths by bytes.
BytesLessShortlex(a, b) ==
    \/ Len(a) < Len(b)
    \/ /\ Len(a) = Len(b)
       /\ \E i \in 1..Len(a) :
             /\ \A j \in 1..(i - 1) : a[j] = b[j]
             /\ a[i] < b[i]

BytesLess(a, b) ==
    \E i \in 1..(MinOf(Len(a), Len(b)) + 1) :
        /\ \A j \in 1..(i - 1) : a[j] = b[j]
        /\ \/ i > Len(a) /\ i <= Len(b)
           \/ i <= Len(a) /\ i <= Len(b) /\ a[i] < b[i]

BytesLeq(a, b) == a = b \/ BytesLess(a, b)

RECURSIVE SortedKeys(_)
SortedKeys(S) ==
    IF S = {} THEN <<>>
    ELSE LET m == CHOOSE k \in S : \A j \in S : BytesLeq(k, j)
         IN <<m>> \o SortedKeys(S \ {m})

(***************************************************************************)
(* A store is a function from the keys that have a record to the stored    *)
(* bytes.  EnginePut / EngineDelete are the engine's point writes,         *)
(* EngineGet its point read (<<>> for None, <<v>> for Some(v)).            *)
(***************************************************************************)
EmptyStore == [k \in {} |-> <<>>]

EngineGet(s, k) == IF k \in DOMAIN s THEN <<s[k]>> ELSE <<>>

EnginePut(s, k, v) ==
    [j \in (DOMAIN s) \cup {k} |-> IF j = k THEN v ELSE s[j]]

EngineDelete(s, k) == [j \in (DOMAIN s) \ {k} |-> s[j]]

(***************************************************************************)
(* search_keys_by_prefix: a raw iterator over a snapshot of the store,     *)
(* positioned by seek(prefix) at the first key >= prefix and advanced to   *)
(* the end; every key that is_prefix accepts is pushed.                    *)
(***************************************************************************)
\* Faulty variant of Seek: positions at the first key > prefix.
SeekStrictlyGreater(ks, prefix) ==
    LET at == {i \in 1..Len(ks) : BytesLess(prefix, ks[i])}
    IN IF at = {} THEN Len(ks) + 1
       ELSE CHOOSE i \in at : \A j \in at : i <= j

Seek(ks, prefix) ==
    LET at == {i \in 1..Len(ks) : BytesLeq(prefix, ks[i])}
    IN IF at = {} THEN Len(ks) + 1
       ELSE CHOOSE i \in at : \A j \in at : i <= j

RECURSIVE ScanLoop(_, _, _, _)
ScanLoop(ks, i, prefix, keys) ==
    IF i > Len(ks) THEN keys
    ELSE ScanLoop(ks, i + 1, prefix,
                  IF is_prefix(prefix, ks[i]) THEN Append(keys, ks[i]) ELSE keys)

search_keys_by_prefix(prefix, s) ==
    LET ks == SortedKeys(DOMAIN s)
    IN ScanLoop(ks, Seek(ks, prefix), prefix, <<>>)

(***************************************************************************)
(* The engine's write-ahead log: one record per write call, a record being *)
(* the sequence of point writes of that call (one for put and delete, all  *)
(* of them for a WriteBatch).                                              *)
(***************************************************************************)
WPut(k, v) == <<"put", k, v>>
WDel(k) == <<"del", k, <<>>>>

RECURSIVE ApplyWrites(_, _)
ApplyWrites(s, ws) ==
    IF ws = <<>> THEN s
    ELSE ApplyWrites(IF Head(ws)[1] = "put"
                     THEN EnginePut(s, Head(ws)[2], Head(ws)[3])
                     ELSE EngineDelete(s, Head(ws)[2]),
                     Tail(ws))

RECURSIVE Recover(_, _, _)
Recover(s, log, n) ==
    IF n = 0 \/ log = <<>> THEN s
    ELSE Recover(ApplyWrites(s, Head(log)), Tail(log), n - 1)

(***************************************************************************)
(* State.                                                                  *)
(***************************************************************************)
VARIABLES
    dbs,      \* DbWrap.dbs: resolved path -> handle (0: no entry)
    lock,     \* the RwLock of dbs is write-locked
    opens,    \* per path, the DB::open calls that succeeded in this process
    mem,      \* per path, the records the engine shows to readers
    disk,     \* per path, the records in flushed (synced) table files
    wal,      \* per path, the log records of the writes not yet flushed
    pc,       \* per thread, the step it is at
    op,       \* per thread, the operation it runs (or last ran) and its arguments
    hnd,      \* per thread, the Arc<DB> it holds (0: none)
    loc,      \* per thread, the locals keys and datas of the prefix operations
    res,      \* per thread, the result of its last operation
    nops,     \* operations begun
    faults,   \* engine calls that failed
    crashes,  \* process kills
    cin,      \* codec model: the input (payload, level)
    cout      \* codec model: the output

vars == <<dbs, lock, opens, mem, disk, wal, pc, op, hnd, loc, res,
          nops, faults, crashes, cin, cout>>

coreVars == <<dbs, lock, opens, mem, disk, wal, pc, op, hnd, loc, res,
              nops, faults, crashes>>

Threads == {1, 2}
Paths == {"a", "b"}
Values == {<<7>>, <<SEG, 5, SEG>>}
Levels == {1, DEFAULT_LEVEL, 5}

NoOp == [name |-> "none", k |-> <<>>, v |-> <<>>, lv |-> 0, force |-> FALSE,
         path |-> "", pairs |-> <<>>, keys |-> <<>>]
NoLoc == [keys |-> <<>>, datas |-> <<>>]
NoRes == [status |-> "none", val |-> <<>>]

GetOp(k, p) == [NoOp EXCEPT !.name = "get", !.k = k, !.path = p]
PutOp(k, v, lv, force, p) ==
    [NoOp EXCEPT !.name = "put", !.k = k, !.v = v, !.lv = lv,
                 !.force = force, !.path = p]
PutBatchOp(pairs, p) == [NoOp EXCEPT !.name = "put_batch", !.pairs = pairs, !.path = p]
DeleteOp(k, p) == [NoOp EXCEPT !.name = "delete", !.k = k, !.path = p]
DeleteBatchOp(keys, p) ==
    [NoOp EXCEPT !.name = "delete_batch", !.keys = keys, !.path = p]
GetPrefixOp(k, p) == [NoOp EXCEPT !.name = "get_prefix", !.k = k, !.path = p]
DeletePrefixOp(k, p) == [NoOp EXCEPT !.name = "delete_prefix", !.k = k, !.path = p]

(***************************************************************************)
(* DbWrap::new, with nothing on disk yet.                                  *)
(***************************************************************************)
InitCore ==
    /\ dbs = [p \in Paths |-> 0]
    /\ lock = FALSE
    /\ opens = [p \in Paths |-> 0]
    /\ mem = [p \in Paths |-> EmptyStore]
    /\ disk = [p \in Paths |-> EmptyStore]
    /\ wal = [p \in Paths |-> <<>>]
    /\ pc = [t \in Threads |-> "idle"]
    /\ op = [t \in Threads |-> NoOp]
    /\ hnd = [t \in Threads |-> 0]
    /\ loc = [t \in Threads |-> NoLoc]
    /\ res = [t \in Threads |-> NoRes]
    /\ nops = 0
    /\ crashes = 0

InitCodecIdle ==
    /\ cin = <<>>
    /\ cout = <<>>

(***************************************************************************)
(* Helpers of the actions.                                                 *)
(***************************************************************************)
\* The step an operation goes to once db() has given it the handle.
FirstPc(name) ==
    CASE name = "get" -> "get"
      [] name = "put" -> "put_check"
      [] name = "put_batch" -> "batch_write"
      [] name = "delete" -> "del_write"
      [] name = "delete_batch" -> "delb_write"
      [] name = "get_prefix" -> "scan"
      [] name = "delete_prefix" -> "scan"

\* The operation of thread t returns: its Arc<DB> and its locals are dropped.
Return(t, status, val) ==
    /\ pc' = [pc EXCEPT ![t] = "idle"]
    /\ op' = op
    /\ hnd' = [hnd EXCEPT ![t] = 0]
    /\ loc' = [loc EXCEPT ![t] = NoLoc]
    /\ res' = [res EXCEPT ![t] = [status |-> status, val |-> val]]

Goto(t, to) ==
    /\ pc' = [pc EXCEPT ![t] = to]
    /\ UNCHANGED <<op, hnd, loc, res>>

\* An engine call may fail (an I/O error): at most MaxFaults times in a run.
MayFail == faults < MaxFaults
Fail == faults' = faults + 1

\* The engine's LOCK file of path p is held while a DB object of p is alive.
Held(p) == dbs[p] # 0 \/ \E t \in Threads : hnd[t] # 0 /\ op[t].path = p

\* Faulty variant of TryWriteLock: the lock excludes no one.
TryWriteLockNoExclusion(l) == TRUE

\* self.dbs.write(): granted when no one holds the lock.
TryWriteLock(l) == l = FALSE

(***************************************************************************)
(* An operation is called and calls db(): the write lock is taken and the  *)
(* path is looked up.  A hit clones the handle and drops the lock; a miss  *)
(* goes on to DB::open with the lock still held.                           *)
(***************************************************************************)
Call(t, o) ==
    /\ pc[t] = "idle"
    /\ TryWriteLock(lock)
    /\ nops' = nops + 1
    /\ op' = [op EXCEPT ![t] = o]
    /\ res' = [res EXCEPT ![t] = NoRes]
    /\ loc' = [loc EXCEPT ![t] = NoLoc]
    /\ IF dbs[o.path] # 0
       THEN /\ hnd' = [hnd EXCEPT ![t] = dbs[o.path]]
            /\ pc' = [pc EXCEPT ![t] = FirstPc(o.name)]
            /\ UNCHANGED lock
       ELSE /\ pc' = [pc EXCEPT ![t] = "db_open"]
            /\ lock' = TRUE
            /\ UNCHANGED hnd
    /\ UNCHANGED <<dbs, opens, mem, disk, wal, faults, crashes, cin, cout>>

\* Faulty variant of DbOpen: a failed open returns with the lock still held.
DbOpenFailureKeepsLock(t) ==
    LET p == op[t].path IN
    /\ pc[t] = "db_open"
    /\ \/ /\ MayFail
          /\ Fail
          /\ Return(t, "OpenError", <<"io">>)
          /\ UNCHANGED <<dbs, opens, lock>>
       \/ /\ opens' = [opens EXCEPT ![p] = @ + 1]
          /\ dbs' = [dbs EXCEPT ![p] = opens[p] + 1]
          /\ hnd' = [hnd EXCEPT ![t] = opens[p] + 1]
          /\ pc' = [pc EXCEPT ![t] = FirstPc(op[t].name)]
          /\ lock' = FALSE
          /\ UNCHANGED <<op, loc, res, faults>>
    /\ UNCHANGED <<mem, disk, wal, nops, crashes, cin, cout>>

\* DB::open, the insert into dbs, and the release of the lock.
DbOpen(t) ==
    LET p == op[t].path IN
    /\ pc[t] = "db_open"
    /\ lock' = FALSE
    /\ \/ /\ Held(p)
          /\ Return(t, "OpenError", <<"locked">>)
          /\ UNCHANGED <<dbs, opens, faults>>
       \/ /\ ~Held(p)
          /\ MayFail
          /\ Fail
          /\ Return(t, "OpenError", <<"io">>)
          /\ UNCHANGED <<dbs, opens>>
       \/ /\ ~Held(p)
          /\ opens' = [opens EXCEPT ![p] = @ + 1]
          /\ dbs' = [dbs EXCEPT ![p] = opens[p] + 1]
          /\ hnd' = [hnd EXCEPT ![t] = opens[p] + 1]
          /\ pc' = [pc EXCEPT ![t] = FirstPc(op[t].name)]
          /\ UNCHANGED <<op, loc, res, faults>>
    /\ UNCHANGED <<mem, disk, wal, nops, crashes, cin, cout>>

(***************************************************************************)
(* get                                                                     *)
(***************************************************************************)
Get(t) ==
    LET p == op[t].path
        value == EngineGet(mem[p], op[t].k)
    IN
    /\ pc[t] = "get"
    /\ \/ /\ MayFail
          /\ Fail
          /\ Return(t, "EngineError", <<>>)
       \/ /\ Return(t, "Ok",
                    IF value = <<>> THEN <<>> ELSE <<data_without_lv(value[1])>>)
          /\ UNCHANGED faults
    /\ UNCHANGED <<dbs, lock, opens, mem, disk, wal, nops, crashes, cin, cout>>

(***************************************************************************)
(* put: the level check, the write, the flush.                             *)
(***************************************************************************)
\* Faulty variant of PutRejected: force does not bypass the check.
PutRejectedIgnoresForce(old, lv, force) == data_lv(old) < lv

\* Faulty variant of PutRejected: the comparison the other way round.
PutRejectedReversed(old, lv, force) == lv < data_lv(old) /\ ~force

\* old.data_lv() < lv && !force
PutRejected(old, lv, force) == data_lv(old) < lv /\ ~force

\* Faulty variant of PutCheck: the value is written before the check rejects.
PutCheckWritesFirst(t) ==
    LET p == op[t].path
        old == EngineGet(mem[p], op[t].k)
        enc == data_with_lv(op[t].v, op[t].lv)
    IN
    /\ pc[t] = "put_check"
    /\ IF old # <<>> /\ PutRejected(old[1], op[t].lv, op[t].force)
       THEN /\ mem' = [mem EXCEPT ![p] = EnginePut(@, op[t].k, enc)]
            /\ wal' = [wal EXCEPT ![p] = Append(@, <<WPut(op[t].k, enc)>>)]
            /\ Return(t, "LevelConflict", <<data_lv(old[1])>>)
       ELSE /\ Goto(t, "put_write")
            /\ UNCHANGED <<mem, wal>>
    /\ UNCHANGED <<dbs, lock, opens, disk, nops, faults, crashes, cin, cout>>

\* Faulty variant of PutCheck: every put goes on to its write.
PutCheckNoCheck(t) ==
    /\ pc[t] = "put_check"
    /\ Goto(t, "put_write")
    /\ UNCHANGED <<dbs, lock, opens, mem, disk, wal, nops, faults, crashes,
                   cin, cout>>

PutCheck(t) ==
    LET p == op[t].path
        old == EngineGet(mem[p], op[t].k)
    IN
    /\ pc[t] = "put_check"
    /\ \/ /\ MayFail
          /\ Fail
          /\ Return(t, "EngineError", <<>>)
       \/ /\ old # <<>>
          /\ PutRejected(old[1], op[t].lv, op[t].force)
          /\ Return(t, "LevelConflict", <<data_lv(old[1])>>)
          /\ UNCHANGED faults
       \/ /\ ~(old # <<>> /\ PutRejected(old[1], op[t].lv, op[t].force))
          /\ Goto(t, "put_write")
          /\ UNCHANGED faults
    /\ UNCHANGED <<dbs, lock, opens, mem, disk, wal, nops, crashes, cin, cout>>

\* Faulty variant of EngineWrite: the writes go to one store whatever the
\* path of the call.
EngineWriteOneStore(p, ws) ==
    /\ mem' = [mem EXCEPT !["a"] = ApplyWrites(@, ws)]
    /\ wal' = [wal EXCEPT !["a"] = Append(@, ws)]

\* The writes of one engine call reach the log and the visible state.
EngineWrite(p, ws) ==
    /\ mem' = [mem EXCEPT ![p] = ApplyWrites(@, ws)]
    /\ wal' = [wal EXCEPT ![p] = Append(@, ws)]

\* Faulty variant of PutWrite: put returns after db.put, without db.flush().
PutWriteNoFlush(t) ==
    LET p == op[t].path IN
    /\ pc[t] = "put_write"
    /\ EngineWrite(p, <<WPut(op[t].k, data_with_lv(op[t].v, op[t].lv))>>)
    /\ Return(t, "Ok", <<>>)
    /\ UNCHANGED <<dbs, lock, opens, disk, nops, faults, crashes, cin, cout>>

PutWrite(t) ==
    LET p == op[t].path IN
    /\ pc[t] = "put_write"
    /\ \/ /\ MayFail
          /\ Fail
          /\ Return(t, "EngineError", <<>>)
          /\ UNCHANGED <<mem, wal>>
       \/ /\ EngineWrite(p, <<WPut(op[t].k, data_with_lv(op[t].v, op[t].lv))>>)
          /\ Goto(t, "flush")
          /\ UNCHANGED faults
    /\ UNCHANGED <<dbs, lock, opens, disk, nops, crashes, cin, cout>>

\* db.flush(): the memtable becomes a synced table file.
Flush(t) ==
    LET p == op[t].path IN
    /\ pc[t] = "flush"
    /\ \/ /\ MayFail
          /\ Fail
          /\ Return(t, "EngineError", <<>>)
          /\ UNCHANGED <<disk, wal>>
       \/ /\ disk' = [disk EXCEPT ![p] = mem[p]]
          /\ wal' = [wal EXCEPT ![p] = <<>>]
          /\ Return(t, "Ok", <<>>)
          /\ UNCHANGED faults
    /\ UNCHANGED <<dbs, lock, opens, mem, nops, crashes, cin, cout>>

(***************************************************************************)
(* put_batch: every pair is encoded at DEFAULT_LEVEL into one WriteBatch,  *)
(* which is written and flushed.                                           *)
(***************************************************************************)
RECURSIVE BatchPuts(_, _)
BatchPuts(pairs, lv) ==
    IF pairs = <<>> THEN <<>>
    ELSE <<WPut(Head(pairs)[1], data_with_lv(Head(pairs)[2], lv))>>
         \o BatchPuts(Tail(pairs), lv)

\* Faulty variant of BatchWrite: each record keeps the level stored for its
\* key, and only a new key gets DEFAULT_LEVEL.
RECURSIVE BatchPutsKeepLevel(_, _)
BatchPutsKeepLevel(pairs, s) ==
    IF pairs = <<>> THEN <<>>
    ELSE LET k == Head(pairs)[1]
             lv == IF k \in DOMAIN s THEN data_lv(s[k]) ELSE DEFAULT_LEVEL
         IN <<WPut(k, data_with_lv(Head(pairs)[2], lv))>>
            \o BatchPutsKeepLevel(Tail(pairs), s)

BatchWriteKeepsLevel(t) ==
    LET p == op[t].path IN
    /\ pc[t] = "batch_write"
    /\ EngineWrite(p, BatchPutsKeepLevel(op[t].pairs, mem[p]))
    /\ Goto(t, "flush")
    /\ UNCHANGED <<dbs, lock, opens, disk, nops, faults, crashes, cin, cout>>

BatchWrite(t) ==
    LET p == op[t].path IN
    /\ pc[t] = "batch_write"
    /\ \/ /\ MayFail
          /\ Fail
          /\ Return(t, "EngineError", <<>>)
          /\ UNCHANGED <<mem, wal>>
       \/ /\ EngineWrite(p, BatchPuts(op[t].pairs, DEFAULT_LEVEL))
          /\ Goto(t, "flush")
          /\ UNCHANGED faults
    /\ UNCHANGED <<dbs, lock, opens, disk, nops, crashes, cin, cout>>

(***************************************************************************)
(* delete and delete_batch                                                 *)
(***************************************************************************)
\* Faulty variant of DeleteWrite: deleting an absent key is an error.
DeleteWriteFailsIfAbsent(t) ==
    LET p == op[t].path IN
    /\ pc[t] = "del_write"
    /\ IF op[t].k \in DOMAIN mem[p]
       THEN /\ EngineWrite(p, <<WDel(op[t].k)>>)
            /\ Goto(t, "flush")
       ELSE /\ Return(t, "EngineError", <<>>)
            /\ UNCHANGED <<mem, wal>>
    /\ UNCHANGED <<dbs, lock, opens, disk, nops, faults, crashes, cin, cout>>

DeleteWrite(t) ==
    LET p == op[t].path IN
    /\ pc[t] = "del_write"
    /\ \/ /\ MayFail
          /\ Fail
          /\ Return(t, "EngineError", <<>>)
          /\ UNCHANGED <<mem, wal>>
       \/ /\ EngineWrite(p, <<WDel(op[t].k)>>)
          /\ Goto(t, "flush")
          /\ UNCHANGED faults
    /\ UNCHANGED <<dbs, lock, opens, disk, nops, crashes, cin, cout>>

RECURSIVE BatchDeletes(_)
BatchDeletes(keys) ==
    IF keys = <<>> THEN <<>>
    ELSE <<WDel(Head(keys))>> \o BatchDeletes(Tail(keys))

DeleteBatchWrite(t) ==
    LET p == op[t].path IN
    /\ pc[t] = "delb_write"
    /\ \/ /\ MayFail
          /\ Fail
          /\ Return(t, "EngineError", <<>>)
          /\ UNCHANGED <<mem, wal>>
       \/ /\ EngineWrite(p, BatchDeletes(op[t].keys))
          /\ Goto(t, "flush")
          /\ UNCHANGED faults
    /\ UNCHANGED <<dbs, lock, opens, disk, nops, crashes, cin, cout>>

(***************************************************************************)
(* get_prefix and delete_prefix: the scan, then one engine call per key.   *)
(***************************************************************************)
Scan(t) ==
    LET p == op[t].path
        keys == search_keys_by_prefix(op[t].k, mem[p])
    IN
    /\ pc[t] = "scan"
    /\ IF keys = <<>>
       THEN Return(t, "Ok", <<>>)
       ELSE /\ pc' = [pc EXCEPT ![t] =
                        IF op[t].name = "get_prefix" THEN "gp_get" ELSE "dp_del"]
            /\ loc' = [loc EXCEPT ![t] = [keys |-> keys, datas |-> <<>>]]
            /\ UNCHANGED <<op, hnd, res>>
    /\ UNCHANGED <<dbs, lock, opens, mem, disk, wal, nops, faults, crashes,
                   cin, cout>>

GpGet(t) ==
    LET p == op[t].path
        key == Head(loc[t].keys)
        data == EngineGet(mem[p], key)
        datas == IF data = <<>> THEN loc[t].datas
                 ELSE Append(loc[t].datas, <<key, data_without_lv(data[1])>>)
    IN
    /\ pc[t] = "gp_get"
    /\ \/ /\ MayFail
          /\ Fail
          /\ Return(t, "EngineError", <<>>)
       \/ /\ IF Tail(loc[t].keys) = <<>>
             THEN Return(t, "Ok", datas)
             ELSE /\ loc' = [loc EXCEPT ![t] =
                               [keys |-> Tail(loc[t].keys), datas |-> datas]]
                  /\ UNCHANGED <<pc, op, hnd, res>>
          /\ UNCHANGED faults
    /\ UNCHANGED <<dbs, lock, opens, mem, disk, wal, nops, crashes, cin, cout>>

\* Faulty variant of DpDelete: the loop ends after its first delete.
DpDeleteStopsAfterFirst(t) ==
    LET p == op[t].path
        key == Head(loc[t].keys)
    IN
    /\ pc[t] = "dp_del"
    /\ EngineWrite(p, <<WDel(key)>>)
    /\ pc' = [pc EXCEPT ![t] = "flush"]
    /\ loc' = [loc EXCEPT ![t] = NoLoc]
    /\ UNCHANGED <<op, hnd, res, faults>>
    /\ UNCHANGED <<dbs, lock, opens, disk, nops, crashes, cin, cout>>

DpDelete(t) ==
    LET p == op[t].path
        key == Head(loc[t].keys)
    IN
    /\ pc[t] = "dp_del"
    /\ \/ /\ MayFail
          /\ Fail
          /\ Return(t, "EngineError", <<>>)
          /\ UNCHANGED <<mem, wal>>
       \/ /\ EngineWrite(p, <<WDel(key)>>)
          /\ IF Tail(loc[t].keys) = <<>>
             THEN /\ pc' = [pc EXCEPT ![t] = "flush"]
                  /\ loc' = [loc EXCEPT ![t] = NoLoc]
             ELSE /\ loc' = [loc EXCEPT ![t].keys = Tail(@)]
                  /\ UNCHANGED pc
          /\ UNCHANGED <<op, hnd, res, faults>>
    /\ UNCHANGED <<dbs, lock, opens, disk, nops, crashes, cin, cout>>

(***************************************************************************)
(* The process is killed and started again.  What the table files hold     *)
(* survives, and of the log a prefix: each path keeps its first n records. *)
(* The new process starts with an empty registry.                          *)
(***************************************************************************)
LongestLog ==
    LET ls == {Len(wal[p]) : p \in Paths}
    IN CHOOSE l \in ls : \A m \in ls : m <= l

Crash ==
    /\ crashes < MaxCrashes
    /\ crashes' = crashes + 1
    /\ \E n \in [Paths -> 0..LongestLog] :
          /\ \A p \in Paths : n[p] <= Len(wal[p])
          /\ mem' = [p \in Paths |-> Recover(disk[p], wal[p], n[p])]
          /\ disk' = [p \in Paths |-> Recover(disk[p], wal[p], n[p])]
    /\ wal' = [p \in Paths |-> <<>>]
    /\ dbs' = [p \in Paths |-> 0]
    /\ opens' = [p \in Paths |-> 0]
    /\ lock' = FALSE
    /\ pc' = [t \in Threads |-> "idle"]
    /\ op' = [t \in Threads |-> NoOp]
    /\ hnd' = [t \in Threads |-> 0]
    /\ loc' = [t \in Threads |-> NoLoc]
    /\ res' = [t \in Threads |-> NoRes]
    /\ UNCHANGED <<nops, faults, cin, cout>>

(***************************************************************************)
(* The concurrent model: two threads call get, put and delete on the keys  *)
(* of one store.  No engine call fails and the process is not killed.      *)
(***************************************************************************)
GateKeys == {<<1, 1>>, <<1, 2>>}

PointOps ==
    {GetOp(k, "a") : k \in GateKeys}
    \cup {PutOp(k, v, lv, f, "a") :
            k \in GateKeys, v \in Values, lv \in Levels, f \in BOOLEAN}
    \cup {DeleteOp(k, "a") : k \in GateKeys}

Init == InitCore /\ faults = MaxFaults /\ InitCodecIdle

Next ==
    \/ \E t \in Threads, o \in PointOps : nops < MaxOps /\ Call(t, o)
    \/ \E t \in Threads : DbOpen(t)
    \/ \E t \in Threads : Get(t)
    \/ \E t \in Threads : PutCheck(t)
    \/ \E t \in Threads : PutWrite(t)
    \/ \E t \in Threads : DeleteWrite(t)
    \/ \E t \in Threads : Flush(t)

Spec == Init /\ [][Next]_vars

(***************************************************************************)
(* The sequential model: one thread calls every point and batch operation  *)
(* on one store, and the process may be killed.  No engine call fails.     *)
(***************************************************************************)
RECURSIVE SeqsUpTo(_, _)
SeqsUpTo(S, n) ==
    IF n = 0 THEN {<<>>}
    ELSE LET shorter == SeqsUpTo(S, n - 1)
         IN shorter \cup {Append(q, x) : q \in {r \in shorter : Len(r) = n - 1}, x \in S}

Batches == SeqsUpTo(GateKeys \X Values, MaxBatch) \ {<<>>}
KeyBatches == SeqsUpTo(GateKeys, MaxBatch) \ {<<>>}

SeqOps ==
    PointOps
    \cup {PutBatchOp(b, "a") : b \in Batches}
    \cup {DeleteBatchOp(ks, "a") : ks \in KeyBatches}

InitSeq == InitCore /\ faults = MaxFaults /\ InitCodecIdle

NextSeq ==
    \/ \E o \in SeqOps : nops < MaxOps /\ Call(1, o)
    \/ DbOpen(1)
    \/ Get(1)
    \/ PutCheck(1)
    \/ PutWrite(1)
    \/ BatchWrite(1)
    \/ DeleteWrite(1)
    \/ DeleteBatchWrite(1)
    \/ Flush(1)
    \/ Crash

SpecSeq == InitSeq /\ [][NextSeq]_vars

(***************************************************************************)
(* The registry model: two threads call get and forced put on one key of   *)
(* either store, so that every interleaving of db() calls on the same and  *)
(* on different paths occurs; engine calls (DB::open among them) may fail  *)
(* and the process may be killed.                                          *)
(***************************************************************************)
RegOps ==
    {GetOp(<<1, 1>>, p) : p \in Paths}
    \cup {PutOp(<<1, 1>>, v, DEFAULT_LEVEL, TRUE, p) : v \in Values, p \in Paths}

InitReg == InitCore /\ faults = 0 /\ InitCodecIdle

NextReg ==
    \/ \E t \in Threads, o \in RegOps : nops < MaxOps /\ Call(t, o)
    \/ \E t \in Threads : DbOpen(t)
    \/ \E t \in Threads : Get(t)
    \/ \E t \in Threads : PutCheck(t)
    \/ \E t \in Threads : PutWrite(t)
    \/ \E t \in Threads : Flush(t)
    \/ Crash

SpecReg == InitReg /\ [][NextReg]_vars

(***************************************************************************)
(* The power-outage model (tests/power_outage.rs): a worker process puts   *)
(* key-00000, key-00001, ... in turn, forced, at level 1, ignoring the     *)
(* results; it is killed at any point; the harness then opens the store    *)
(* again and calls get_prefix("key-").  No engine call fails.              *)
(***************************************************************************)
WorkerPath == "a"
WorkerPrefix == <<9>>
WorkerKey(i) == <<9, i>>
WorkerVal(i) == <<i % (MaxU8 + 1)>>

WorkerPut ==
    /\ crashes = 0
    /\ nops < MaxWorkerKeys
    /\ Call(1, PutOp(WorkerKey(nops), WorkerVal(nops), WorkerLevel, TRUE, WorkerPath))

WorkerKill == crashes = 0 /\ Crash

HarnessScan ==
    /\ crashes = 1
    /\ op[1] = NoOp
    /\ Call(1, GetPrefixOp(WorkerPrefix, WorkerPath))

InitWorker == InitCore /\ faults = MaxFaults /\ InitCodecIdle

NextWorker ==
    \/ WorkerPut
    \/ WorkerKill
    \/ HarnessScan
    \/ DbOpen(1)
    \/ PutCheck(1)
    \/ PutWrite(1)
    \/ Flush(1)
    \/ Scan(1)
    \/ GpGet(1)

SpecWorker == InitWorker /\ [][NextWorker]_vars

(***************************************************************************)
(* The scan model: one thread calls get_prefix and delete_prefix on a      *)
(* store that earlier puts have filled: every key of ScanKeys is absent or *)
(* holds an encoded value.  No engine call fails.                          *)
(***************************************************************************)
ScanKeyList == << <<1, 1>>, <<1, 2>>, <<2, 1>>, <<1>>, <<2>>, <<1, 1, 1>> >>
ScanKeys == {ScanKeyList[i] : i \in 1..MinOf(MaxScanKeys, Len(ScanKeyList))}
ScanPrefixes == {<<>>, <<1>>, <<2>>, <<1, 2>>, <<3>>, <<1, 1, 1>>}
SeedValues == {data_with_lv(v, lv) : v \in Values, lv \in {1, 5}}
SeedStores == UNION {[D -> SeedValues] : D \in SUBSET ScanKeys}

ScanOps ==
    {GetPrefixOp(k, "a") : k \in ScanPrefixes}
    \cup {DeletePrefixOp(k, "a") : k \in ScanPrefixes}

InitScan ==
    /\ InitCodecIdle
    /\ dbs = [p \in Paths |-> 0]
    /\ lock = FALSE
    /\ opens = [p \in Paths |-> 0]
    /\ \E s \in SeedStores :
          /\ mem = [p \in Paths |-> IF p = "a" THEN s ELSE EmptyStore]
          /\ disk = [p \in Paths |-> IF p = "a" THEN s ELSE EmptyStore]
    /\ wal = [p \in Paths |-> <<>>]
    /\ pc = [t \in Threads |-> "idle"]
    /\ op = [t \in Threads |-> NoOp]
    /\ hnd = [t \in Threads |-> 0]
    /\ loc = [t \in Threads |-> NoLoc]
    /\ res = [t \in Threads |-> NoRes]
    /\ nops = 0
    /\ faults = MaxFaults
    /\ crashes = 0

NextScan ==
    \/ \E o \in ScanOps : nops < MaxOps /\ Call(1, o)
    \/ DbOpen(1)
    \/ Scan(1)
    \/ GpGet(1)
    \/ DpDelete(1)
    \/ Flush(1)

SpecScan == InitScan /\ [][NextScan]_vars

(***************************************************************************)
(* The codec model: a payload of at most MaxLen bytes and a level are      *)
(* encoded by data_with_lv, and the result is decoded by data_lv and       *)
(* data_without_lv.                                                        *)
(***************************************************************************)
CodecBytes == {0, DEFAULT_LEVEL, SEG, MaxU8}
CodecPayloads == SeqsUpTo(CodecBytes, MaxLen)
U8 == 0..MaxU8

InitCodec ==
    /\ InitCore
    /\ faults = MaxFaults
    /\ cin \in CodecPayloads \X U8
    /\ cout = [stage |-> "in", bytes |-> <<>>, lv |-> 0]

CodecEncode ==
    /\ cout.stage = "in"
    /\ cout' = [stage |-> "enc", bytes |-> data_with_lv(cin[1], cin[2]), lv |-> 0]
    /\ UNCHANGED <<coreVars, cin>>

CodecDecode ==
    /\ cout.stage = "enc"
    /\ cout' = [stage |-> "dec", bytes |-> data_without_lv(cout.bytes),
                lv |-> data_lv(cout.bytes)]
    /\ UNCHANGED <<coreVars, cin>>

NextCodec == CodecEncode \/ CodecDecode

SpecCodec == InitCodec /\ [][NextCodec]_vars

(***************************************************************************)
(* The decoder on its own: any byte sequence of at most MaxLen + 1 bytes   *)
(* (a value written to the store by other means) is decoded by data_lv and *)
(* data_without_lv.                                                        *)
(***************************************************************************)
RawValues == SeqsUpTo(CodecBytes, MaxLen + 1)

InitRaw ==
    /\ InitCore
    /\ faults = MaxFaults
    /\ cin \in RawValues \X {0}
    /\ cout = [stage |-> "in", bytes |-> <<>>, lv |-> 0]

RawDecode ==
    /\ cout.stage = "in"
    /\ cout' = [stage |-> "raw", bytes |-> data_without_lv(cin[1]),
                lv |-> data_lv(cin[1])]
    /\ UNCHANGED <<coreVars, cin>>

NextRaw == RawDecode

SpecRaw == InitRaw /\ [][NextRaw]_vars

(***************************************************************************)
(* The failure model: one thread calls the five writing operations on one  *)
(* store, and up to MaxFaults engine calls (DB::open, get, put, write,     *)
(* delete, flush) fail.                                                    *)
(***************************************************************************)
FaultPrefixes == {<<1>>, <<1, 1>>}

FaultOps ==
    {PutOp(k, v, lv, f, "a") :
        k \in GateKeys, v \in Values, lv \in Levels, f \in BOOLEAN}
    \cup {PutBatchOp(b, "a") : b \in Batches}
    \cup {DeleteOp(k, "a") : k \in GateKeys}
    \cup {DeleteBatchOp(ks, "a") : ks \in KeyBatches}
    \cup {DeletePrefixOp(k, "a") : k \in FaultPrefixes}

InitFault == InitCore /\ faults = 0 /\ InitCodecIdle

NextFault ==
    \/ \E o \in FaultOps : nops < MaxOps /\ Call(1, o)
    \/ DbOpen(1)
    \/ PutCheck(1)
    \/ PutWrite(1)
    \/ BatchWrite(1)
    \/ DeleteWrite(1)
    \/ DeleteBatchWrite(1)
    \/ Scan(1)
    \/ DpDelete(1)
    \/ Flush(1)

SpecFault == InitFault /\ [][NextFault]_vars

(***************************************************************************)
(* The race model: store a holds no record of one key or a record at one   *)
(* of the levels, and each of the two threads calls put on that key once.  *)
(***************************************************************************)
RaceKey == <<1, 1>>

RaceSeeds ==
    {EmptyStore}
    \cup {EnginePut(EmptyStore, RaceKey, data_with_lv(<<7>>, l)) : l \in Levels}

RaceOps ==
    {PutOp(RaceKey, v, lv, f, "a") : v \in Values, lv \in Levels, f \in BOOLEAN}

InitRace ==
    /\ InitCodecIdle
    /\ dbs = [p \in Paths |-> 0]
    /\ lock = FALSE
    /\ opens = [p \in Paths |-> 0]
    /\ \E s \in RaceSeeds :
          /\ mem = [p \in Paths |-> IF p = "a" THEN s ELSE EmptyStore]
          /\ disk = [p \in Paths |-> IF p = "a" THEN s ELSE EmptyStore]
    /\ wal = [p \in Paths |-> <<>>]
    /\ pc = [t \in Threads |-> "idle"]
    /\ op = [t \in Threads |-> NoOp]
    /\ hnd = [t \in Threads |-> 0]
    /\ loc = [t \in Threads |-> NoLoc]
    /\ res = [t \in Threads |-> NoRes]
    /\ nops = 0
    /\ crashes = 0
    /\ faults = MaxFaults

NextRace ==
    \/ \E t \in Threads, o \in RaceOps : op[t] = NoOp /\ Call(t, o)
    \/ \E t \in Threads : DbOpen(t)
    \/ \E t \in Threads : PutCheck(t)
    \/ \E t \in Threads : PutWrite(t)
    \/ \E t \in Threads : Flush(t)

SpecRace == InitRace /\ [][NextRace]_vars

(***************************************************************************)
(* The payload model: one thread calls get, put and put_batch with         *)
(* payloads that are empty, shorter than the header, or begin with the     *)
(* header pattern.                                                         *)
(***************************************************************************)
HdrValues == Values \cup {<<>>}

HdrBatches == SeqsUpTo(GateKeys \X HdrValues, MaxBatch) \ {<<>>}

HdrOps ==
    {GetOp(k, "a") : k \in GateKeys}
    \cup {PutOp(k, v, lv, f, "a") :
            k \in GateKeys, v \in HdrValues, lv \in Levels, f \in BOOLEAN}
    \cup {PutBatchOp(b, "a") : b \in HdrBatches}

InitHdr == InitCore /\ faults = MaxFaults /\ InitCodecIdle

NextHdr ==
    \/ \E o \in HdrOps : nops < MaxOps /\ Call(1, o)
    \/ DbOpen(1)
    \/ Get(1)
    \/ PutCheck(1)
    \/ PutWrite(1)
    \/ BatchWrite(1)
    \/ Flush(1)

SpecHdr == InitHdr /\ [][NextHdr]_vars

(***************************************************************************)
(* The two-store model: two threads call each of the seven operations on   *)
(* either path.  No engine call fails and the process is not killed.       *)
(***************************************************************************)
IsoPrefix == <<1>>

IsoOps ==
    UNION {
      {GetOp(k, p) : k \in GateKeys}
      \cup {PutOp(k, v, DEFAULT_LEVEL, TRUE, p) : k \in GateKeys, v \in Values}
      \cup {PutBatchOp(<< <<k, v>> >>, p) : k \in GateKeys, v \in Values}
      \cup {DeleteOp(k, p) : k \in GateKeys}
      \cup {DeleteBatchOp(<<k>>, p) : k \in GateKeys}
      \cup {GetPrefixOp(IsoPrefix, p), DeletePrefixOp(IsoPrefix, p)}
      : p \in Paths }

InitIso == InitCore /\ faults = MaxFaults /\ InitCodecIdle

NextIso ==
    \/ \E t \in Threads, o \in IsoOps : nops < MaxOps /\ Call(t, o)
    \/ \E t \in Threads : DbOpen(t)
    \/ \E t \in Threads : Get(t)
    \/ \E t \in Threads : PutCheck(t)
    \/ \E t \in Threads : PutWrite(t)
    \/ \E t \in Threads : BatchWrite(t)
    \/ \E t \in Threads : DeleteWrite(t)
    \/ \E t \in Threads : DeleteBatchWrite(t)
    \/ \E t \in Threads : Scan(t)
    \/ \E t \in Threads : GpGet(t)
    \/ \E t \in Threads : DpDelete(t)
    \/ \E t \in Threads : Flush(t)

SpecIso == InitIso /\ [][NextIso]_vars

(***************************************************************************)
(* Properties of the level gate of put, under Spec.                        *)
(***************************************************************************)
\* Thread t takes a step of its operation.
Steps(t) == pc'[t] # pc[t] \/ loc'[t] # loc[t]

\* Thread t leaves the level check of its put in this step.
LeavesCheck(t) == pc[t] = "put_check" /\ pc'[t] # "put_check"

Rejected(t) == LeavesCheck(t) /\ res'[t].status = "LevelConflict"

StoresUnchanged == mem' = mem /\ disk' = disk /\ wal' = wal

\* C1: for a key whose record has stored level e, a put at level n without
\* force passes the gate if and only if n >= e, and fails with a level
\* conflict when n < e.
C1_OverwriteGate ==
    [][\A t \in Threads :
          (LeavesCheck(t) /\ ~op[t].force /\ op[t].k \in DOMAIN mem[op[t].path])
          => LET e == data_lv(mem[op[t].path][op[t].k])
                 n == op[t].lv
             IN /\ (pc'[t] = "put_write") <=> (n >= e)
                /\ (n < e) => res'[t].status = "LevelConflict"]_vars

\* C2: a put rejected by the level check performs no write: the step that
\* rejects it leaves every record of every store as it was, a level conflict
\* is only ever raised by the check, and no step of a put before its write
\* step changes a store.
C2_RejectedPutWritesNothing ==
    [][\A t \in Threads :
          /\ Rejected(t) => StoresUnchanged
          /\ (Steps(t) /\ res'[t].status = "LevelConflict") => Rejected(t)
          /\ (Steps(t) /\ op'[t].name = "put"
                /\ pc[t] \in {"idle", "db_open", "put_check"})
             => StoresUnchanged]_vars

\* C2 witness: a put was rejected while its key and another key have records.
C2_Witness ==
    \E t \in Threads :
        /\ pc[t] = "idle"
        /\ op[t].name = "put"
        /\ res[t].status = "LevelConflict"
        /\ op[t].k \in DOMAIN mem["a"]
        /\ \E j \in DOMAIN mem["a"] : j # op[t].k

\* C3: a put with force, or on a key without a record, is never rejected by
\* the level check; its write stores the put value under the put's level, so
\* that a get of the key returns the value and the stored level is the level.
C3_ForceAndAbsentBypass ==
    [][\A t \in Threads :
          LET p == op[t].path
              k == op[t].k
          IN /\ Rejected(t) => (~op[t].force /\ k \in DOMAIN mem[p])
             /\ (pc[t] = "put_write" /\ pc'[t] = "flush"
                   /\ (op[t].force \/ k \notin DOMAIN mem[p]))
                => /\ k \in DOMAIN mem'[p]
                   /\ data_without_lv(mem'[p][k]) = op[t].v
                   /\ data_lv(mem'[p][k]) = op[t].lv]_vars

\* C3 witness: a forced put at a level above the stored one has written, the
\* table files still holding the record it replaced.
C3_Witness ==
    \E t \in Threads :
        LET k == op[t].k IN
        /\ pc[t] = "flush"
        /\ op[t].name = "put"
        /\ op[t].force
        /\ k \in DOMAIN disk["a"]
        /\ data_lv(disk["a"][k]) < op[t].lv
        /\ mem["a"][k] = data_with_lv(op[t].v, op[t].lv)

(***************************************************************************)
(* Properties of the batch write and of durability, under SpecSeq.         *)
(***************************************************************************)
\* The overwrite rule as the data model states it: a write at level n over a
\* record of level e is allowed only if n >= e.
ViolatesLevelRule(old, n) == n < data_lv(old)

\* C4: put_batch checks every pair against the overwrite rule before it
\* applies anything: when a pair of the batch violates the rule, the call
\* fails with a level conflict and the store is unchanged.
C4_BatchAllOrNothing ==
    [][\A t \in Threads :
          LET p == op[t].path
              pairs == op[t].pairs
          IN (/\ pc[t] = "batch_write"
              /\ pc'[t] # "batch_write"
              /\ \E i \in 1..Len(pairs) :
                    /\ pairs[i][1] \in DOMAIN mem[p]
                    /\ ViolatesLevelRule(mem[p][pairs[i][1]], DEFAULT_LEVEL))
             => /\ res'[t].status = "LevelConflict"
                /\ StoresUnchanged]_vars

\* What a store shows once write operation o has taken effect.
RECURSIVE LastValue(_, _, _)
LastValue(pairs, k, found) ==
    IF pairs = <<>> THEN found
    ELSE LastValue(Tail(pairs), k,
                   IF Head(pairs)[1] = k THEN <<Head(pairs)[2]>> ELSE found)

Shows(s, o) ==
    CASE o.name = "put" ->
            EngineGet(s, o.k) = <<data_with_lv(o.v, o.lv)>>
      [] o.name = "put_batch" ->
            \A i \in 1..Len(o.pairs) :
                LET k == o.pairs[i][1]
                IN EngineGet(s, k)
                   = <<data_with_lv(LastValue(o.pairs, k, <<>>)[1], DEFAULT_LEVEL)>>
      [] o.name = "delete" -> o.k \notin DOMAIN s
      [] o.name = "delete_batch" ->
            \A i \in 1..Len(o.keys) : o.keys[i] \notin DOMAIN s
      [] OTHER -> TRUE

DurableOps == {"put", "put_batch", "delete", "delete_batch"}

Returned(t) ==
    /\ pc[t] = "idle"
    /\ res[t].status = "Ok"
    /\ op[t].name \in DurableOps

\* C6: once put, put_batch, delete or delete_batch has returned successfully
\* its effect is durable: the table files hold it, and whenever the process
\* is killed after the return the reopened store shows the written record
\* (or the removal).
C6_DurableWrite ==
    [][\A t \in Threads :
          /\ (Steps(t) /\ Returned(t)')
             => Shows(disk'[op[t].path], op[t])
          /\ (Returned(t) /\ crashes' = crashes + 1)
             => Shows(mem'[op[t].path], op[t])]_vars

\* C6 witness: a put has returned, its record is in the table files, and the
\* process can be killed at this point.
C6_Witness ==
    /\ Returned(1)
    /\ op[1].name = "put"
    /\ crashes < MaxCrashes
    /\ Shows(disk["a"], op[1])
    /\ wal["a"] = <<>>

(***************************************************************************)
(* Properties of the registry, under SpecReg.                              *)
(***************************************************************************)
\* C5: under any interleaving of db() calls the registry holds at most one
\* handle per path, DB::open succeeds at most once per path in a process,
\* every caller holding a handle of a path holds the registry's handle (no
\* db() call fails because the path is already open), and so all callers of
\* a path work on the same store.
C5_RegistrySingleInstance ==
    /\ \A p \in Paths :
          /\ opens[p] <= 1
          /\ dbs[p] = opens[p]
    /\ \A t \in Threads :
          /\ hnd[t] # 0 => hnd[t] = dbs[op[t].path]
          /\ res[t].status = "OpenError" => res[t].val = <<"io">>
    /\ \A t, u \in Threads :
          (hnd[t] # 0 /\ hnd[u] # 0 /\ op[t].path = op[u].path) => hnd[t] = hnd[u]

\* C5 witness: both threads raced to the same path, one opened it and the
\* other got the same handle, and a record written through one handle has
\* been read through the other.
C5_Witness ==
    /\ opens["a"] = 1
    /\ op[1].name = "put" /\ op[1].path = "a" /\ pc[1] = "flush" /\ hnd[1] = 1
    /\ op[2].name = "get" /\ op[2].path = "a" /\ pc[2] = "idle"
    /\ res[2] = [status |-> "Ok", val |-> <<op[1].v>>]
    /\ disk["a"] = EmptyStore

(***************************************************************************)
(* Properties of the power-outage run, under SpecWorker.                   *)
(***************************************************************************)
WorkerIndexes == 0..(MaxWorkerKeys - 1)

\* The worker keys that store s holds.
PresentIn(s) == {i \in WorkerIndexes : WorkerKey(i) \in DOMAIN s}

PrefixClosed(I) == \A i \in I : \A j \in 0..(i - 1) : j \in I

\* C7: when the worker is killed at an arbitrary point, the reopened store
\* opens without error and holds a prefix of the attempted keys: if key i is
\* present so is every key j < i, every key whose put had returned before
\* the kill is present, no key that was not attempted is present, and
\* get_prefix on the reopened store returns exactly those keys.
C7_CrashPrefixConsistency ==
    [][/\ (crashes' = crashes + 1)
          => LET present == PresentIn(mem'[WorkerPath])
                 attempted == nops
                 returned == IF pc[1] = "idle" THEN nops ELSE nops - 1
             IN /\ DOMAIN mem'[WorkerPath] = {WorkerKey(i) : i \in present}
                /\ PrefixClosed(present)
                /\ \A i \in 0..(returned - 1) : i \in present
                /\ \A i \in present :
                      /\ i < attempted
                      /\ mem'[WorkerPath][WorkerKey(i)]
                         = data_with_lv(WorkerVal(i), WorkerLevel)
       /\ res'[1].status \notin {"OpenError", "EngineError", "LevelConflict"}
       /\ (crashes = 1 /\ pc[1] # "idle" /\ pc'[1] = "idle")
          => LET present == PresentIn(mem[WorkerPath])
                 entries == res'[1].val
             IN /\ res'[1].status = "Ok"
                /\ Len(entries) = Cardinality(present)
                /\ Len(entries) <= nops - 1
                /\ \A n \in 1..Len(entries) :
                      entries[n] = <<WorkerKey(n - 1), WorkerVal(n - 1)>>]_vars

\* C7 witness: the harness got some of the attempted keys and not all, the
\* put of a lost key having been under way at the kill.
C7_Witness ==
    /\ crashes = 1
    /\ pc[1] = "idle"
    /\ op[1].name = "get_prefix"
    /\ res[1].status = "Ok"
    /\ Len(res[1].val) >= 2
    /\ Len(res[1].val) < nops - 1

(***************************************************************************)
(* Properties of the prefix operations, under SpecScan.                    *)
(***************************************************************************)
StartsWith(k, p) == Len(k) >= Len(p) /\ SubSeq(k, 1, Len(p)) = p

Matching(s, p) == {k \in DOMAIN s : StartsWith(k, p)}

\* Thread t returns from operation name in this step.
Returns(t, name) == pc[t] # "idle" /\ pc'[t] = "idle" /\ op[t].name = name

\* C8: with no concurrent writer get_prefix(p) returns exactly the records
\* whose key starts with p, each once, in ascending byte order of key, each
\* value being the payload without the level header; with the empty prefix
\* it returns every record of the store.
C8_PrefixScan ==
    [][Returns(1, "get_prefix")
       => LET s == mem[op[1].path]
              p == op[1].k
              out == res'[1].val
          IN /\ res'[1].status = "Ok"
             /\ {out[n][1] : n \in 1..Len(out)} = Matching(s, p)
             /\ Len(out) = Cardinality(Matching(s, p))
             /\ \A n \in 1..(Len(out) - 1) : BytesLess(out[n][1], out[n + 1][1])
             /\ \A n \in 1..Len(out) :
                   /\ out[n][2] \in Values
                   /\ data_with_lv(out[n][2], data_lv(s[out[n][1]])) = s[out[n][1]]
             /\ (p = <<>>) => Len(out) = Cardinality(DOMAIN s)]_vars

\* C8 witness: get_prefix returned records of a store that holds also a
\* smaller key and a greater key that do not match.
C8_Witness ==
    /\ pc[1] = "idle"
    /\ op[1].name = "get_prefix"
    /\ op[1].k = <<1, 2>> \/ op[1].k = <<2>>
    /\ res[1].status = "Ok"
    /\ Len(res[1].val) >= 1
    /\ \E k \in DOMAIN mem["a"] : BytesLess(k, op[1].k)
    /\ \E k \in DOMAIN mem["a"] : BytesLess(op[1].k, k) /\ ~StartsWith(k, op[1].k)

\* C9: after delete_prefix(p) has returned successfully, with no concurrent
\* writer, no key starting with p remains (get_prefix(p) would be empty),
\* whatever its level was, and every record whose key does not start with p
\* is there with its bytes unchanged; with the empty prefix the store is
\* empty.  (An operation starts with the table files equal to the store, and
\* delete_prefix changes them only in its last step.)
C9_PrefixDelete ==
    [][/\ (pc[1] = "idle") => disk = mem
       /\ Returns(1, "delete_prefix")
          => LET before == disk[op[1].path]
                 after == mem'[op[1].path]
                 p == op[1].k
             IN /\ res'[1].status = "Ok"
                /\ Matching(after, p) = {}
                /\ search_keys_by_prefix(p, after) = <<>>
                /\ DOMAIN after = (DOMAIN before) \ Matching(before, p)
                /\ \A k \in DOMAIN after : after[k] = before[k]
                /\ (p = <<>>) => after = EmptyStore]_vars

\* C9 witness: delete_prefix(<<1>>) has deleted records of level 1 and of
\* level 5, which the table files still hold, and left a record that does
\* not match.
C9_Witness ==
    /\ pc[1] = "flush"
    /\ op[1].name = "delete_prefix"
    /\ op[1].k = <<1>>
    /\ \E j, k \in Matching(disk["a"], <<1>>) :
          data_lv(disk["a"][j]) = 1 /\ data_lv(disk["a"][k]) = 5
    /\ Matching(mem["a"], <<1>>) = {}
    /\ mem["a"] # EmptyStore

(***************************************************************************)
(* Properties of the codec, under SpecCodec.                               *)
(***************************************************************************)
\* C10: for every payload v (the empty one and the ones that begin with the
\* header pattern included) and every level l in 0..255, decoding the
\* encoding gives v and l back.
C10_CodecRoundTrip ==
    cout.stage = "dec" => (cout.bytes = cin[1] /\ cout.lv = cin[2])

\* C10 witness: a payload that itself begins with SEG, x, SEG was encoded at
\* level 255 and decoded.
C10_Witness ==
    /\ cout.stage = "dec"
    /\ cin = << <<SEG, DEFAULT_LEVEL, SEG>>, MaxU8 >>

(***************************************************************************)
(* Properties of the decoder on arbitrary bytes, under SpecRaw.            *)
(***************************************************************************)
\* The value x carries the header: at least 3 bytes, SEG at bytes 0 and 2.
HasHeader(x) == Len(x) >= 3 /\ x[1] = SEG /\ x[3] = SEG

\* C11: every byte sequence x that is shorter than 3 bytes, or whose byte 0
\* or byte 2 is not 0x0A, decodes to level 3 and to x itself; the decoder
\* gives a level in 0..255 and a byte sequence for every input.
C11_DefaultLevelOnMissingHeader ==
    cout.stage = "raw" =>
        /\ cout.lv \in U8
        /\ cout.bytes \in RawValues
        /\ ~HasHeader(cin[1]) =>
               (cout.lv = DEFAULT_LEVEL /\ cout.bytes = cin[1])

\* C11 witness: three bytes with SEG at byte 0 only, and a level byte that
\* is not 3, were decoded.
C11_Witness ==
    /\ cout.stage = "raw"
    /\ cin[1] = <<SEG, 0, MaxU8>>

(***************************************************************************)
(* Properties of delete and delete_batch, under SpecSeq.                   *)
(***************************************************************************)
\* Store s2 is store s1 without the keys of ks, every other record as in s1.
Without(s1, ks, s2) ==
    /\ DOMAIN s2 = DOMAIN s1 \ ks
    /\ \A k \in DOMAIN s2 : s2[k] = s1[k]

KeysOf(keys) == {keys[i] : i \in 1..Len(keys)}

\* C12: delete and delete_batch do not fail because a key is absent and do
\* not look at the stored level: the write step always goes on to the flush,
\* after it the named keys have no record and every other record is as it
\* was, a delete of keys that have no record (such as the same delete applied
\* again) leaves the store as it is, and the call returns success.
C12_DeleteUnconditionalIdempotent ==
    [][\A t \in Threads :
          LET p == op[t].path IN
          /\ (pc[t] = "del_write" /\ crashes' = crashes /\ Steps(t))
             => /\ pc'[t] = "flush"
                /\ Without(mem[p], {op[t].k}, mem'[p])
                /\ (op[t].k \notin DOMAIN mem[p] => mem' = mem)
          /\ (pc[t] = "delb_write" /\ crashes' = crashes /\ Steps(t))
             => /\ pc'[t] = "flush"
                /\ Without(mem[p], KeysOf(op[t].keys), mem'[p])
                /\ (KeysOf(op[t].keys) \cap DOMAIN mem[p] = {} => mem' = mem)
          /\ (crashes' = crashes
              /\ (Returns(t, "delete") \/ Returns(t, "delete_batch")))
             => /\ res'[t].status = "Ok"
                /\ Without(mem[p], {}, mem'[p])]_vars

\* C12 witness: a delete of a key that has no record (the store holds
\* another one) has applied its write and left the store as it was.
C12_Witness ==
    /\ pc[1] = "flush"
    /\ op[1].name = "delete"
    /\ op[1].k \notin DOMAIN disk["a"]
    /\ disk["a"] # EmptyStore
    /\ mem["a"] = disk["a"]

(***************************************************************************)
(* Properties of failing calls, under SpecFault.                           *)
(***************************************************************************)
\* Until an engine call has failed every call has ended with a flush or
\* without a write, so the table files hold the store as it was when the
\* running call began.
BeforeCall(p) == disk[p]

NoFaultYet == faults = 0

FaultFreeCallsLeaveNothingUnflushed ==
    (NoFaultYet /\ pc[1] = "idle") => disk = mem

\* C13: when put, put_batch, delete, delete_batch or delete_prefix returns
\* an error (a level conflict, or an engine error of any step, the flush
\* after the write and a later delete of delete_prefix included), the store
\* shows what it showed before the call.
C13_NoPartialEffectOnFailure ==
    [][\A t \in Threads :
          (/\ NoFaultYet
           /\ pc[t] # "idle"
           /\ pc'[t] = "idle"
           /\ res'[t].status # "Ok")
          => mem'[op[t].path] = BeforeCall(op[t].path)]_vars

(***************************************************************************)
(* Properties of a failed open, under SpecReg.                             *)
(***************************************************************************)
\* Thread t begins an operation.
Begins(t) == pc[t] = "idle" /\ pc'[t] # "idle"

\* C14: when db() fails to open a path the registry is as it was (no entry
\* for the path, the other entries unchanged), the lock is released and no
\* record changes; afterwards a call on a path that is open gets the
\* registry's handle without opening and runs to success unless one of its
\* own engine calls fails, and a call on a path that has no entry (the one
\* that failed included) attempts the open again.
C14_OpenFailureLocal ==
    [][\A t \in Threads :
          /\ (pc[t] = "db_open" /\ res'[t].status = "OpenError")
             => /\ dbs' = dbs
                /\ dbs'[op[t].path] = 0
                /\ opens' = opens
                /\ lock' = FALSE
                /\ hnd'[t] = 0
                /\ StoresUnchanged
          /\ (res'[t].status = "OpenError" /\ res[t].status # "OpenError")
             => pc[t] = "db_open"
          /\ Begins(t)
             => IF dbs[op'[t].path] = 0
                THEN pc'[t] = "db_open" /\ lock'
                ELSE /\ pc'[t] = FirstPc(op'[t].name)
                     /\ hnd'[t] = dbs[op'[t].path]
                     /\ ~lock'
          /\ (/\ pc[t] \notin {"idle", "db_open"}
              /\ pc'[t] = "idle"
              /\ faults' = faults
              /\ crashes' = crashes)
             => res'[t].status = "Ok"]_vars

\* C14 witness: store a is open, thread 2 failed to open store b, and
\* thread 1 now holds the lock and attempts to open store b again.
C14_Witness ==
    /\ dbs["a"] = 1
    /\ dbs["b"] = 0
    /\ pc[2] = "idle" /\ res[2].status = "OpenError" /\ op[2].path = "b"
    /\ pc[1] = "db_open" /\ op[1].path = "b"
    /\ lock

(***************************************************************************)
(* The rejection rule of put as the code has it, under Spec.               *)
(***************************************************************************)
\* The put of thread t meets a record of its key whose stored level is
\* strictly below the put's level, and the put is not forced.
StoredLevelBelow(t) ==
    LET s == mem[op[t].path] IN
    /\ op[t].k \in DOMAIN s
    /\ data_lv(s[op[t].k]) < op[t].lv
    /\ ~op[t].force

\* C15: the level check of put fails the call, with no record changed and
\* the stored level in the error, exactly when a record of the key exists,
\* its stored level is strictly less than the put's level and force is
\* false; in every other case the put goes on to its write.
C15_PutRejectionRule ==
    [][\A t \in Threads :
          LeavesCheck(t)
          => IF StoredLevelBelow(t)
             THEN /\ pc'[t] = "idle"
                  /\ res'[t].status = "LevelConflict"
                  /\ res'[t].val = <<data_lv(mem[op[t].path][op[t].k])>>
                  /\ StoresUnchanged
             ELSE /\ pc'[t] = "put_write"
                  /\ res'[t].status # "LevelConflict"]_vars

\* C15 witness: a put at level 5 without force was rejected by a record
\* stored at level 3, while a put at level 1 without force on the same
\* record is past the check.
C15_Witness ==
    /\ pc[1] = "idle" /\ op[1].name = "put" /\ op[1].lv = 5
    /\ res[1] = [status |-> "LevelConflict", val |-> <<DEFAULT_LEVEL>>]
    /\ pc[2] = "put_write" /\ op[2].lv = 1 /\ ~op[2].force
    /\ op[2].k = op[1].k
    /\ data_lv(mem["a"][op[2].k]) = DEFAULT_LEVEL

(***************************************************************************)
(* The check and the write of put as two steps, under SpecRace.            *)
(***************************************************************************)
\* Thread t applies the write of its put on a record that its level check
\* would reject.
RacedWrite(t) ==
    /\ pc[t] = "put_write"
    /\ pc'[t] = "flush"
    /\ StoredLevelBelow(t)

\* The put of thread u has applied its write.
HasWritten(u) ==
    /\ op[u].name = "put"
    /\ pc[u] \in {"flush", "idle"}
    /\ res[u].status # "LevelConflict"

\* C16: the level check and the write of put are two steps with nothing
\* held between them.  A put without force does apply its write on a record
\* whose level its check would have rejected, and when it does, that record
\* is not the one its check met: it is the record that the other thread's
\* put of the same key has written in the meantime, and both values have
\* gone through a passing check.
C16_CheckApplyRace ==
    [][\A t \in Threads :
          RacedWrite(t)
          => /\ mem'["a"][op[t].k] = data_with_lv(op[t].v, op[t].lv)
             /\ \E u \in Threads \ {t} :
                   /\ HasWritten(u)
                   /\ op[u].k = op[t].k
                   /\ mem["a"][op[t].k] = data_with_lv(op[u].v, op[u].lv)
                   /\ op[u].lv < op[t].lv]_vars

\* C16 witness: thread 2 put the key at level 1 without force, has flushed
\* and returned; thread 1, whose put at level 5 without force passed its
\* check before that write, has now written over the level 1 record, which
\* its check would have rejected.
C16_Witness ==
    /\ pc[2] = "idle" /\ res[2].status = "Ok"
    /\ op[2].lv = 1 /\ ~op[2].force
    /\ disk["a"] = EnginePut(EmptyStore, RaceKey, data_with_lv(op[2].v, 1))
    /\ pc[1] = "flush"
    /\ op[1].lv = 5 /\ ~op[1].force
    /\ mem["a"] = EnginePut(EmptyStore, RaceKey, data_with_lv(op[1].v, 5))

(***************************************************************************)
(* The scan against a scan that stops early, under SpecScan.               *)
(***************************************************************************)
\* The scan that ends at the first key is_prefix does not accept.
RECURSIVE EarlyExitLoop(_, _, _, _)
EarlyExitLoop(ks, i, prefix, keys) ==
    IF i > Len(ks) THEN keys
    ELSE IF ~is_prefix(prefix, ks[i]) THEN keys
    ELSE EarlyExitLoop(ks, i + 1, prefix, Append(keys, ks[i]))

\* C17: for every store and prefix the scan of the code, which seeks and
\* walks to the end of the store, collects the same keys in the same order
\* as the scan that stops at the first key that does not match: the
\* matching keys are the keys at the seek position and right after it.
C17_EarlyExitEquivalence ==
    [][(pc[1] = "scan" /\ pc'[1] # "scan")
       => LET ks == SortedKeys(DOMAIN mem[op[1].path])
              from == Seek(ks, op[1].k)
              got == IF pc'[1] = "idle" THEN <<>> ELSE loc'[1].keys
          IN /\ got = EarlyExitLoop(ks, from, op[1].k, <<>>)
             /\ \A j \in 1..Len(got) : got[j] = ks[from + j - 1]]_vars

\* C17 witness: the scan for prefix <<1>> collected two keys of a store that
\* holds a greater key that does not match, which the scan walked over.
C17_Witness ==
    /\ pc[1] = "gp_get"
    /\ op[1].k = <<1>>
    /\ loc[1].keys = << <<1, 1>>, <<1, 2>> >>
    /\ <<2, 1>> \in DOMAIN mem["a"]

(***************************************************************************)
(* Properties of stored values and of get, under SpecHdr.                  *)
(***************************************************************************)
\* Every record of store s begins with SEG, a level, SEG.
AllHaveHeader(s) == \A k \in DOMAIN s : HasHeader(s[k])

\* What follows the three header bytes of a stored value.
AfterHeader(x) == SubSeq(x, 4, Len(x))

\* What a get of k is to return from store s: nothing, or the bytes after
\* the header.
Payload(s, k) == IF k \in DOMAIN s THEN <<AfterHeader(s[k])>> ELSE <<>>

\* C18: every value that put and put_batch have written begins with the
\* header 0x0A, level, 0x0A; once a put or put_batch has written, the bytes
\* after the header of its key are exactly the payload it was given (the
\* last one given for a key that occurs twice in a batch), and get returns
\* exactly the bytes after the header of the stored value, also when the
\* payload is empty, shorter than 3 bytes or begins with the header pattern.
C18_StoredHeaderAndPayload ==
    [][/\ \A p \in Paths : AllHaveHeader(mem'[p]) /\ AllHaveHeader(disk'[p])
       /\ \A t \in Threads :
             LET p == op[t].path IN
             /\ (pc[t] = "put_write" /\ pc'[t] = "flush")
                => Payload(mem'[p], op[t].k) = <<op[t].v>>
             /\ (pc[t] = "batch_write" /\ pc'[t] = "flush")
                => \A i \in 1..Len(op[t].pairs) :
                      LET k == op[t].pairs[i][1]
                      IN Payload(mem'[p], k) = LastValue(op[t].pairs, k, <<>>)
             /\ Returns(t, "get")
                => /\ res'[t].status = "Ok"
                   /\ res'[t].val = Payload(mem[p], op[t].k)]_vars

\* C18 witness: a payload that begins with the header pattern was written,
\* a record of the empty payload is stored too, and a get has returned the
\* header-like payload whole.
C18_Witness ==
    /\ pc[1] = "idle"
    /\ op[1].name = "get"
    /\ res[1] = [status |-> "Ok", val |-> << <<SEG, 5, SEG>> >>]
    /\ \E k \in DOMAIN mem["a"] : Len(mem["a"][k]) = 3

(***************************************************************************)
(* Properties of put_batch as the code has it, under SpecSeq.              *)
(***************************************************************************)
PairKeys(pairs) == {pairs[i][1] : i \in 1..Len(pairs)}

\* C19: put_batch has no level and no force and is never rejected for a
\* level: its write makes every key of the batch hold the batch value (the
\* value of the last pair with that key) at stored level 3, whatever level
\* the key had before, leaves every other record as it was, and the call
\* returns success with all of that in the store.
C19_BatchWritesDefaultLevel ==
    [][\A t \in Threads :
          LET p == op[t].path
              ks == PairKeys(op[t].pairs)
          IN
          /\ (pc[t] = "batch_write" /\ crashes' = crashes /\ Steps(t))
             => /\ pc'[t] = "flush"
                /\ DOMAIN mem'[p] = DOMAIN mem[p] \cup ks
                /\ \A k \in ks :
                      /\ data_lv(mem'[p][k]) = DEFAULT_LEVEL
                      /\ <<data_without_lv(mem'[p][k])>>
                         = LastValue(op[t].pairs, k, <<>>)
                /\ \A k \in DOMAIN mem[p] \ ks : mem'[p][k] = mem[p][k]
          /\ (Returns(t, "put_batch") /\ crashes' = crashes)
             => /\ res'[t].status = "Ok"
                /\ \A k \in ks : data_lv(mem'[p][k]) = DEFAULT_LEVEL]_vars

\* C19 witness: a batch that names one key twice with different values has
\* been written over a record of that key stored at level 5, which the table
\* files still hold; the store shows the second value at level 3.
C19_Witness ==
    /\ pc[1] = "flush"
    /\ op[1].name = "put_batch"
    /\ Len(op[1].pairs) = 2
    /\ op[1].pairs[1][1] = op[1].pairs[2][1]
    /\ op[1].pairs[1][2] # op[1].pairs[2][2]
    /\ op[1].pairs[1][1] \in DOMAIN disk["a"]
    /\ data_lv(disk["a"][op[1].pairs[1][1]]) = 5
    /\ mem["a"][op[1].pairs[1][1]] = data_with_lv(op[1].pairs[2][2], DEFAULT_LEVEL)

(***************************************************************************)
(* Properties of operations on different paths, under SpecIso.             *)
(***************************************************************************)
\* The visible records, the table files and the log of path q are unchanged.
StoreUnchanged(q) == mem'[q] = mem[q] /\ disk'[q] = disk[q] /\ wal'[q] = wal[q]

ReadOps == {"get", "get_prefix"}

\* C20: every step of an operation called with path P works through the
\* registry's handle of P and leaves the store of every other path as it
\* was; every step of get and get_prefix leaves all stores as they were; and
\* what get returns is determined by the store of P alone.
C20_StoreIsolation ==
    [][\A t \in Threads :
          Steps(t)
          => LET p == op'[t].path IN
             /\ \A q \in Paths \ {p} : StoreUnchanged(q)
             /\ hnd'[t] # 0 => hnd'[t] = dbs'[p]
             /\ op'[t].name \in ReadOps => \A q \in Paths : StoreUnchanged(q)
             /\ Returns(t, "get")
                => res'[t].val
                   = IF op[t].k \in DOMAIN mem[p]
                     THEN <<data_without_lv(mem[p][op[t].k])>>
                     ELSE <<>>]_vars

\* C20 witness: both stores hold a record of the same key with different
\* values, written through the two threads, and a get on path b has
\* returned the value of store b.
C20_Witness ==
    /\ pc[1] = "idle" /\ op[1].name = "get" /\ op[1].path = "b"
    /\ op[1].k \in DOMAIN mem["b"]
    /\ res[1].val = <<data_without_lv(mem["b"][op[1].k])>>
    /\ op[1].k \in DOMAIN mem["a"]
    /\ mem["a"][op[1].k] # mem["b"][op[1].k]

====
